---- MODULE Spec2Model ----
(***************************************************************************)
(* Workflow model of the PMDS performance-management application:          *)
(* performance agreements, mid-year and final reviews and improvement      *)
(* plans, as driven by the request handlers of performance/views/.         *)
(*                                                                         *)
(* Each request handler is one action.  An action covers the whole         *)
(* request: authentication, permission decorator or mixin, the handler     *)
(* body with every save it performs, and the response.  The database runs  *)
(* in autocommit mode, so what a handler saved before it raised stays      *)
(* saved.                                                                  *)
(***************************************************************************)
EXTENDS Integers, Sequences, FiniteSets, TLC

VARIABLES
    agreement,   \* the PerformanceAgreement row followed by the model
    response,    \* the last request and how it ended
    midyear,     \* the MidYearReview row followed by the model
    midyear_reviews, \* the number of MidYearReview rows of the agreement
    final,       \* the FinalReview row followed by the model
    plans,       \* the ImprovementPlan table: a sequence of rows
    audit,       \* the AuditTrail table: a sequence of rows, oldest first
    accounts,    \* the CustomUser rows that exist
    notifications, \* the Notification table: a sequence of rows
    preferences, \* each user's NotificationPreference row
    calls        \* the model-method call each caller has in progress

vars ==
    <<agreement, response, midyear, midyear_reviews, final, plans, audit,
      accounts, notifications, preferences, calls>>

----------------------------------------------------------------------------
(* Bounds *)

\* number of rows the ImprovementPlan table may hold
MaxPlans == 2

\* number of rows the AuditTrail table may hold
MaxAudit == 2
MaxReviews == 2

\* text values are followed up to emptiness, the one property of a text the
\* handlers test
Texts == {"", "t"}

\* the callers of model methods, and a caller with no call in progress
Callers == {1, 2}
Idle == [pc |-> "idle"]
NoCalls == [p \in Callers |-> Idle]

----------------------------------------------------------------------------
(* Users: the fixture of the test suite plus an unrelated employee and a   *)
(* superuser.  Every request is made by a logged-in user.                  *)

EMPLOYEE == "EMPLOYEE"
MANAGER == "MANAGER"
HR == "HR"
APPROVER == "APPROVER"

Users == {"emp", "sup", "appr", "hr", "other", "admin"}

role(u) ==
    CASE u = "sup" -> MANAGER
      [] u = "hr" -> HR
      [] u = "appr" -> APPROVER
      [] OTHER -> EMPLOYEE

\* a request is authenticated when its session's user row exists
is_authenticated(u) == u \in accounts

is_superuser(u) == u = "admin"

\* CustomUser.manager; "NULL" when unset
manager(u) == IF u = "emp" THEN "sup" ELSE "NULL"

\* reverse side of CustomUser.manager (related_name='subordinates')
subordinates(u) == {e \in Users : manager(e) = u}

\* users whose employee_id and persal_number are filled in
profile_complete(u) == u \in {"emp", "appr"}

\* holders of the model permission performance.change_performanceagreement
has_change_perm(u) == is_superuser(u) \/ u = "hr"

----------------------------------------------------------------------------
(* PerformanceAgreement *)

DRAFT == "DRAFT"
PENDING_EMPLOYEE_RATING == "PENDING_EMPLOYEE_RATING"
PENDING_SUPERVISOR_RATING == "PENDING_SUPERVISOR_RATING"
PENDING_SUPERVISOR_SIGNOFF == "PENDING_SUPERVISOR_SIGNOFF"
PENDING_MANAGER_APPROVAL == "PENDING_MANAGER_APPROVAL"
PENDING_HR_VERIFICATION == "PENDING_HR_VERIFICATION"
COMPLETED == "COMPLETED"
REJECTED == "REJECTED"
RETURNED_FOR_CORRECTION == "RETURNED_FOR_CORRECTION"

STATUS_CHOICES ==
    {DRAFT, PENDING_EMPLOYEE_RATING, PENDING_SUPERVISOR_RATING,
     PENDING_SUPERVISOR_SIGNOFF, PENDING_MANAGER_APPROVAL,
     PENDING_HR_VERIFICATION, COMPLETED, REJECTED, RETURNED_FOR_CORRECTION}

\* a mutation of StatusAttributes: the class also defines the attribute the
\* views refer to, without declaring it as a choice
StatusAttributes_WithSupervisorReview ==
    STATUS_CHOICES \cup {"PENDING_SUPERVISOR_REVIEW"}

\* the status attributes defined on the PerformanceAgreement class; reading
\* any other attribute of the class raises AttributeError
StatusAttributes == STATUS_CHOICES

\* PerformanceAgreement.PENDING_SUPERVISOR_REVIEW, as the views read it
PENDING_SUPERVISOR_REVIEW == "PENDING_SUPERVISOR_REVIEW"

HasSupervisorReview == PENDING_SUPERVISOR_REVIEW \in StatusAttributes

NoAgreement == [status |-> "NO_ROW"]

\* KeyResponsibilityArea.weighting is a DecimalField with two decimal places:
\* weightings are counted in hundredths, and a stored KRA row is represented
\* by its weighting
Hundred == 10000
Tolerance == 1

Weightings == {4000, 6000, 9999, Hundred}

\* one form of a posted KRA formset: row is the position of the stored row
\* its id field names (0 for an extra form), DELETE its delete checkbox
KRAForm(row, weighting, delete) ==
    [row |-> row, weighting |-> weighting, DELETE |-> delete]

RECURSIVE SumSeq(_)
SumSeq(s) == IF s = <<>> THEN 0 ELSE Head(s) + SumSeq(Tail(s))

Abs(x) == IF x < 0 THEN 0 - x ELSE x

\* the sum KRAInlineFormSet.clean takes: over the posted forms not marked
\* for deletion
RECURSIVE total_weighting(_)
total_weighting(forms) ==
    IF forms = <<>> THEN 0
    ELSE (IF Head(forms).DELETE THEN 0 ELSE Head(forms).weighting)
         + total_weighting(Tail(forms))

\* KRAFormSet.is_valid: every id names a stored row of the instance, at least
\* min_num forms remain, and clean accepts the total
KRAFormSetValid(forms, stored) ==
    /\ \A k \in 1..Len(forms) : forms[k].row \in 0..Len(stored)
    /\ \E k \in 1..Len(forms) : ~forms[k].DELETE
    /\ Abs(total_weighting(forms) - Hundred) <= Tolerance

HasForm(forms, i) == \E k \in 1..Len(forms) : forms[k].row = i
FormFor(forms, i) == forms[CHOOSE k \in 1..Len(forms) : forms[k].row = i]

\* BaseModelFormSet.save_existing_objects: a stored row is deleted or
\* rewritten by the form that names it; a row no form names is left alone
RECURSIVE save_existing_objects(_, _, _)
save_existing_objects(stored, forms, i) ==
    IF i > Len(stored) THEN <<>>
    ELSE LET rest == save_existing_objects(stored, forms, i + 1) IN
         IF ~HasForm(forms, i) THEN <<stored[i]>> \o rest
         ELSE IF FormFor(forms, i).DELETE THEN rest
         ELSE <<FormFor(forms, i).weighting>> \o rest

\* BaseModelFormSet.save_new_objects: each extra form not marked for deletion
\* adds a row
RECURSIVE save_new_objects(_)
save_new_objects(forms) ==
    IF forms = <<>> THEN <<>>
    ELSE (IF Head(forms).row = 0 /\ ~Head(forms).DELETE
          THEN <<Head(forms).weighting>> ELSE <<>>)
         \o save_new_objects(Tail(forms))

\* kra_formset.save()
KRAFormSetSave(stored, forms) ==
    save_existing_objects(stored, forms, 1) \o save_new_objects(forms)

\* the formsets posted in the workflow: one extra form to the create page, the
\* single stored row rewritten on the update page
KraCreateInputs ==
    {<<KRAForm(0, Hundred, FALSE)>>, <<KRAForm(0, 9999, FALSE)>>,
     <<KRAForm(0, 6000, FALSE)>>}
KraInputs ==
    {<<KRAForm(1, Hundred, FALSE)>>, <<KRAForm(1, 9999, FALSE)>>,
     <<KRAForm(1, 6000, FALSE)>>}

\* a row as the model's field defaults leave it.  comments stands for the
\* fields employee_comments, supervisor_comments and manager_comments, which
\* the form treats alike; batch_number stands for the other form fields
\* GenericAssessmentFactor.GAF_CHOICES, in catalogue order
GafCatalogue ==
    <<"GAF1", "GAF2", "GAF3", "GAF4", "GAF5", "GAF6", "GAF7", "GAF8", "GAF9",
      "GAF10", "GAF11", "GAF12", "GAF13", "GAF14", "GAF15">>
GAF_CHOICES == {GafCatalogue[i] : i \in 1..Len(GafCatalogue)}

\* one form of a posted GAF formset; a stored GAF row is represented by its
\* factor
GAFForm(row, factor) == [row |-> row, factor |-> factor]

\* GAFFormSet.is_valid.  factor is a choice field; max_num is not validated
\* (validate_max is left False).  ModelForm.validate_unique and
\* BaseModelFormSet.validate_unique test unique_together against the stored
\* rows and between the forms, and skip both tests while the parent row has
\* no primary key
GAFFormSetValid(forms, stored, parent_saved) ==
    /\ \A k \in 1..Len(forms) :
          /\ forms[k].row \in 0..Len(stored)
          /\ forms[k].factor \in GAF_CHOICES
    /\ parent_saved =>
          /\ \A j, k \in 1..Len(forms) :
                j # k => forms[j].factor # forms[k].factor
          /\ \A k \in 1..Len(forms) : \A i \in 1..Len(stored) :
                i # forms[k].row => stored[i] # forms[k].factor

\* the table without its unique constraint
UniqueTogetherViolated_NoConstraint(rows, form) == FALSE

\* unique_together = ['performance_agreement', 'factor']: writing the form's
\* row would give the agreement two rows with one factor
UniqueTogetherViolated(rows, form) ==
    \E i \in 1..Len(rows) : i # form.row /\ rows[i] = form.factor

\* form.save() of one GAF form: an UPDATE of the row it names or an INSERT
GAFFormSave(rows, form) ==
    IF form.row = 0 THEN Append(rows, form.factor)
    ELSE [rows EXCEPT ![form.row] = form.factor]

\* the forms saved one after another; the database raises IntegrityError at
\* the first write that breaks the constraint, the earlier writes staying
RECURSIVE save_gaf_forms(_, _)
save_gaf_forms(rows, forms) ==
    IF forms = <<>> THEN [rows |-> rows, ok |-> TRUE]
    ELSE IF UniqueTogetherViolated(rows, Head(forms))
    THEN [rows |-> rows, ok |-> FALSE]
    ELSE save_gaf_forms(GAFFormSave(rows, Head(forms)), Tail(forms))

\* gaf_formset.save(): the forms of stored rows first, then the extra forms
GAFFormSetSave(stored, forms) ==
    save_gaf_forms(stored,
                   SelectSeq(forms, LAMBDA f : f.row # 0)
                       \o SelectSeq(forms, LAMBDA f : f.row = 0))

\* plan_start_date and plan_end_date are day numbers, 0 standing for NULL
NewAgreement(u, kras) ==
    [employee |-> u, supervisor |-> "sup", approver |-> "appr",
     status |-> DRAFT,
     comments |-> "", batch_number |-> "", kras |-> kras,
     plan_start_date |-> 0, plan_end_date |-> 0, gafs |-> <<>>,
     rejection_reason |-> "", rejection_date |-> "NULL",
     return_reason |-> "", return_date |-> "NULL",
     manager_approval_date |-> "NULL",
     hr_verification_date |-> "NULL", hr_verifier |-> "NULL",
     hr_comments |-> "", completion_date |-> "NULL"]

----------------------------------------------------------------------------
(* permissions.py *)

\* can_view_performance_agreement without its last clause, the supervisor's
can_view_performance_agreement_NoSupervisorClause(u, a) ==
    IF ~is_authenticated(u) THEN FALSE
    ELSE IF is_superuser(u) \/ role(u) \in {HR, APPROVER} THEN TRUE
    ELSE IF a.employee = u THEN TRUE
    ELSE IF role(u) = MANAGER /\ a.employee \in subordinates(u) THEN TRUE
    ELSE FALSE

can_view_performance_agreement(u, a) ==
    IF ~is_authenticated(u) THEN FALSE
    ELSE IF is_superuser(u) \/ role(u) \in {HR, APPROVER} THEN TRUE
    ELSE IF a.employee = u THEN TRUE
    ELSE IF role(u) = MANAGER /\ a.employee \in subordinates(u) THEN TRUE
    ELSE IF a.supervisor = u THEN TRUE
    ELSE FALSE

can_create_performance_agreement(u) ==
    is_authenticated(u) /\ role(u) \in {EMPLOYEE, MANAGER, HR}

can_update_performance_agreement(u, a) ==
    IF ~is_authenticated(u) THEN FALSE
    ELSE IF is_superuser(u) THEN TRUE
    ELSE IF role(u) = HR THEN TRUE
    ELSE IF a.employee = u /\ a.status = DRAFT THEN TRUE
    ELSE IF /\ role(u) = MANAGER
            /\ a.employee \in subordinates(u)
            /\ a.status \in {DRAFT, PENDING_MANAGER_APPROVAL} THEN TRUE
    ELSE IF /\ a.supervisor = u
            /\ a.status \in {PENDING_SUPERVISOR_RATING,
                             PENDING_SUPERVISOR_SIGNOFF} THEN TRUE
    ELSE FALSE

can_delete_performance_agreement(u, a) ==
    IF ~is_authenticated(u) THEN FALSE
    ELSE IF is_superuser(u) /\ a.status # COMPLETED THEN TRUE
    ELSE IF role(u) = HR /\ a.status # COMPLETED THEN TRUE
    ELSE IF a.employee = u /\ a.status = DRAFT THEN TRUE
    ELSE FALSE

can_approve_performance_agreement(u, a) ==
    IF ~is_authenticated(u) THEN FALSE
    ELSE IF /\ (is_superuser(u) \/ role(u) \in {HR, APPROVER})
            /\ a.status = PENDING_MANAGER_APPROVAL THEN TRUE
    ELSE IF /\ role(u) = MANAGER
            /\ a.employee \in subordinates(u)
            /\ a.status = PENDING_MANAGER_APPROVAL THEN TRUE
    ELSE FALSE

\* PerformanceAgreement.can_delete (models.py)
can_delete(a, u) == role(u) = HR /\ a.status \in {DRAFT, REJECTED}

\* decorators.performance_agreement_permission for an existing row
performance_agreement_permission(permission_type, u, a) ==
    CASE permission_type = "view" -> can_view_performance_agreement(u, a)
      [] permission_type = "update" -> can_update_performance_agreement(u, a)
      [] permission_type = "delete" -> can_delete_performance_agreement(u, a)
      [] permission_type = "approve" -> can_approve_performance_agreement(u, a)
      [] OTHER -> FALSE

\* PerformanceAgreementPermissionMixin.test_func.  The framework's
\* UserPassesTestMixin.dispatch calls it before the view's get()/post() has
\* called get_object(), so has_object is false when it runs.
PerformanceAgreementPermissionMixin_test_func(permission_type, u, a, has_object) ==
    IF ~has_object
    THEN IF permission_type = "create"
         THEN can_create_performance_agreement(u)
         ELSE TRUE
    ELSE performance_agreement_permission(permission_type, u, a)

\* whether self.object is set when dispatch() runs test_func
ObjectSetAtDispatch == FALSE

----------------------------------------------------------------------------
(* AuditTrail and utils.log_audit_event *)

ACTION_UPDATE == "UPDATE"
ACTION_VERIFY == "VERIFY"
ACTION_LOGIN == "LOGIN"
ACTION_LOGOUT == "LOGOUT"

\* an AuditTrail row: the acting user, the action and the type of the object
AuditEntry(u, action, content_type) ==
    [user |-> u, action |-> action, content_type |-> content_type]

\* log_audit_event: AuditTrail.objects.create
log_audit_event(log, u, action, content_type) ==
    Append(log, AuditEntry(u, action, content_type))

----------------------------------------------------------------------------
(* Responses *)

Resp(view, u, action, outcome) ==
    [view |-> view, user |-> u, action |-> action, outcome |-> outcome]

NoResponse == Resp("none", "none", "none", "none")

----------------------------------------------------------------------------
(* views/performance_agreement_views.py *)

SubmitActions ==
    {"save", "submit_for_review", "supervisor_approve", "manager_approve",
     "hr_verify"}

Methods == {"GET", "POST"}

\* the plan dates the workflow's pages post
PlanDates == <<1, 2>>

\* PerformanceAgreementForm.is_valid on the posted plan_start_date and
\* plan_end_date: __init__ makes both required, and the form has no clean
PerformanceAgreementFormValid(dates) == dates[1] # 0 /\ dates[2] # 0

\* Meta.fields with status among the form's fields
PerformanceAgreementFormFields_WithStatus ==
    {"employee", "supervisor", "approver", "plan_start_date", "plan_end_date",
     "midyear_review_date", "final_assessment_date", "employee_comments",
     "supervisor_comments", "manager_comments", "batch_number", "status"}

\* PerformanceAgreementForm.Meta.fields
PerformanceAgreementFormFields ==
    {"employee", "supervisor", "approver", "plan_start_date", "plan_end_date",
     "midyear_review_date", "final_assessment_date", "employee_comments",
     "supervisor_comments", "manager_comments", "batch_number"}

\* the status form.save() gives a new row: a posted value reaches the row
\* only through a field of the form, otherwise the model default stays
CreatedStatus(posted_status) ==
    IF "status" \in PerformanceAgreementFormFields
    THEN posted_status
    ELSE NewAgreement("emp", <<>>).status

\* PerformanceAgreementCreateView: dispatch, test_func and form_valid
PerformanceAgreementCreateView(u, posted_status, dates, kras, gafs) ==
    /\ agreement = NoAgreement
    /\ IF ~profile_complete(u)
       THEN /\ response' = Resp("create", u, "POST", "profile")
            /\ UNCHANGED agreement
       ELSE IF ~PerformanceAgreementPermissionMixin_test_func(
                    "create", u, NoAgreement, FALSE)
       THEN /\ response' = Resp("create", u, "POST", "denied")
            /\ UNCHANGED agreement
       ELSE IF ~PerformanceAgreementFormValid(dates)
       THEN /\ response' = Resp("create", u, "POST", "invalid")
            /\ UNCHANGED agreement
       ELSE IF ~KRAFormSetValid(kras, <<>>) \/ ~GAFFormSetValid(gafs, <<>>, FALSE)
       THEN /\ response' = Resp("create", u, "POST", "invalid")
            /\ UNCHANGED agreement
       ELSE /\ agreement' =
                 [NewAgreement(u, KRAFormSetSave(<<>>, kras)) EXCEPT
                     !.status = CreatedStatus(posted_status),
                     !.plan_start_date = dates[1],
                     !.plan_end_date = dates[2],
                     !.gafs = GAFFormSetSave(<<>>, gafs).rows]
            /\ response' =
                 Resp("create", u, "POST",
                      IF GAFFormSetSave(<<>>, gafs).ok
                      THEN "success" ELSE "exception")
    /\ UNCHANGED <<midyear, midyear_reviews, final, plans, audit, accounts,
                   notifications, preferences, calls>>

\* PerformanceAgreementUpdateView.get_form followed by form.save(): outside
\* Draft every field but the three comment fields is disabled
FormSave(a, c, bn, dates) ==
    IF a.status # DRAFT
    THEN [a EXCEPT !.comments = c]
    ELSE [a EXCEPT !.comments = c, !.batch_number = bn,
                   !.plan_start_date = dates[1], !.plan_end_date = dates[2]]

\* the formsets saved whatever the status
FormSetSave_AnyStatus(a, kras, gafs) ==
    [a EXCEPT !.kras = KRAFormSetSave(a.kras, kras),
              !.gafs = GAFFormSetSave(a.gafs, gafs).rows]

\* the formsets are saved only in Draft
FormSetSave(a, kras, gafs) ==
    IF a.status = DRAFT
    THEN [a EXCEPT !.kras = KRAFormSetSave(a.kras, kras),
                   !.gafs = GAFFormSetSave(a.gafs, gafs).rows]
    ELSE a

\* the hr_verify branch of the update view and performance_agreement_hr_verify
HRVerified(a, u, hc) ==
    [a EXCEPT !.status = COMPLETED, !.hr_verification_date = "SET",
              !.hr_verifier = u, !.hr_comments = hc,
              !.completion_date = "SET"]

\* PerformanceAgreementUpdateView: dispatch, get_form and form_valid
PerformanceAgreementUpdateView(u, submit_action, c, bn, dates, kras, gafs) ==
    /\ agreement # NoAgreement
    /\ LET saved == FormSetSave(FormSave(agreement, c, bn, dates), kras, gafs)
           R(outcome) == Resp("update", u, submit_action, outcome)
       IN
       IF ~is_authenticated(u)
       THEN /\ response' = R("login")
            /\ UNCHANGED agreement
       ELSE IF ~PerformanceAgreementPermissionMixin_test_func(
                    "update", u, agreement, ObjectSetAtDispatch)
       THEN /\ response' = R("denied")
            /\ UNCHANGED agreement
       ELSE IF agreement.status = DRAFT /\ ~PerformanceAgreementFormValid(dates)
       THEN /\ response' = R("invalid")
            /\ UNCHANGED agreement
       ELSE IF \/ ~KRAFormSetValid(kras, agreement.kras)
               \/ ~GAFFormSetValid(gafs, agreement.gafs, TRUE)
       THEN /\ response' = R("invalid")
            /\ UNCHANGED agreement
       ELSE IF /\ agreement.status = DRAFT
               /\ ~GAFFormSetSave(agreement.gafs, gafs).ok
       THEN /\ agreement' = saved
            /\ response' = R("exception")
       ELSE IF submit_action = "submit_for_review" /\ saved.status = DRAFT
       THEN IF HasSupervisorReview
            THEN /\ agreement' = [saved EXCEPT !.status = PENDING_SUPERVISOR_REVIEW]
                 /\ response' = R("success")
            ELSE /\ agreement' = saved
                 /\ response' = R("exception")
       ELSE IF submit_action = "supervisor_approve" /\ ~HasSupervisorReview
       THEN /\ agreement' = saved
            /\ response' = R("exception")
       ELSE IF /\ submit_action = "supervisor_approve"
               /\ saved.status = PENDING_SUPERVISOR_REVIEW
       THEN /\ agreement' = [saved EXCEPT !.status = PENDING_MANAGER_APPROVAL]
            /\ response' = R("success")
       ELSE IF /\ submit_action = "manager_approve"
               /\ \/ u = saved.approver
                  \/ role(u) = HR /\ saved.status = PENDING_MANAGER_APPROVAL
       THEN /\ agreement' = [saved EXCEPT !.status = PENDING_HR_VERIFICATION,
                                          !.manager_approval_date = "SET"]
            /\ response' = R("success")
       ELSE IF /\ submit_action = "hr_verify"
               /\ role(u) = HR
               /\ saved.status = PENDING_HR_VERIFICATION
       THEN /\ agreement' = HRVerified(saved, u, saved.hr_comments)
            /\ response' = R("success")
       ELSE /\ agreement' = saved
            /\ response' = R("success")
    /\ IF /\ submit_action = "hr_verify"
          /\ role(u) = HR
          /\ agreement.status = PENDING_HR_VERIFICATION
          /\ response'.outcome = "success"
       THEN /\ Len(audit) < MaxAudit
            /\ audit' = log_audit_event(audit, u, ACTION_VERIFY, "PerformanceAgreement")
       ELSE UNCHANGED audit
    /\ UNCHANGED <<midyear, midyear_reviews, final, plans, accounts,
                   notifications, preferences, calls>>

\* login_required and performance_agreement_permission around a function view
Guarded(view, permission_type, u, action, body) ==
    IF ~is_authenticated(u)
    THEN /\ response' = Resp(view, u, action, "login")
         /\ UNCHANGED agreement
    ELSE IF ~performance_agreement_permission(permission_type, u, agreement)
    THEN /\ response' = Resp(view, u, action, "denied")
         /\ UNCHANGED agreement
    ELSE body

performance_agreement_submit(u) ==
    /\ agreement # NoAgreement
    /\ Guarded("submit", "update", u, "GET",
         IF agreement.status # DRAFT
         THEN /\ response' = Resp("submit", u, "GET", "error")
              /\ UNCHANGED agreement
         ELSE IF ~HasSupervisorReview
         THEN /\ response' = Resp("submit", u, "GET", "exception")
              /\ UNCHANGED agreement
         ELSE /\ agreement' = [agreement EXCEPT !.status = PENDING_SUPERVISOR_REVIEW]
              /\ response' = Resp("submit", u, "GET", "success"))
    /\ UNCHANGED <<midyear, midyear_reviews, final, plans, audit, accounts,
                   notifications, preferences, calls>>

performance_agreement_approve(u) ==
    /\ agreement # NoAgreement
    /\ Guarded("approve", "update", u, "GET",
         IF u = agreement.supervisor /\ ~HasSupervisorReview
         THEN /\ response' = Resp("approve", u, "GET", "exception")
              /\ UNCHANGED agreement
         ELSE IF /\ u = agreement.supervisor
                 /\ agreement.status = PENDING_SUPERVISOR_REVIEW
         THEN /\ agreement' = [agreement EXCEPT !.status = PENDING_MANAGER_APPROVAL]
              /\ response' = Resp("approve", u, "GET", "success")
         ELSE IF /\ (u = agreement.approver \/ role(u) = HR)
                 /\ agreement.status = PENDING_MANAGER_APPROVAL
         THEN /\ agreement' = [agreement EXCEPT !.status = COMPLETED,
                                                !.manager_approval_date = "SET",
                                                !.completion_date = "SET"]
              /\ response' = Resp("approve", u, "GET", "success")
         ELSE /\ response' = Resp("approve", u, "GET", "error")
              /\ UNCHANGED agreement)
    /\ UNCHANGED <<midyear, midyear_reviews, final, plans, audit, accounts,
                   notifications, preferences, calls>>

\* f"Rejected: {reason}\n\n{comment}": never empty
PrependRejection(comment, reason) == "t"

performance_agreement_reject(u, method, reason) ==
    /\ agreement # NoAgreement
    /\ Guarded("reject", "update", u, method,
         IF method # "POST"
         THEN /\ response' = Resp("reject", u, method, "page")
              /\ UNCHANGED agreement
         ELSE IF ~HasSupervisorReview
         THEN /\ response' = Resp("reject", u, method, "exception")
              /\ UNCHANGED agreement
         ELSE /\ agreement' =
                   IF agreement.status = PENDING_SUPERVISOR_REVIEW
                   THEN [agreement EXCEPT
                           !.status = DRAFT,
                           !.comments = PrependRejection(@, reason)]
                   ELSE IF agreement.status = PENDING_MANAGER_APPROVAL
                   THEN [agreement EXCEPT
                           !.status = PENDING_SUPERVISOR_REVIEW,
                           !.comments = PrependRejection(@, reason)]
                   ELSE agreement
              /\ response' = Resp("reject", u, method, "success"))
    /\ UNCHANGED <<midyear, midyear_reviews, final, plans, audit, accounts,
                   notifications, preferences, calls>>

performance_agreement_delete(u, method) ==
    /\ agreement # NoAgreement
    /\ Guarded("delete", "delete", u, method,
         IF method = "POST"
         THEN /\ agreement' = NoAgreement
              /\ response' = Resp("delete", u, method, "success")
         ELSE /\ response' = Resp("delete", u, method, "page")
              /\ UNCHANGED agreement)
    /\ UNCHANGED <<midyear, midyear_reviews, final, plans, audit, accounts,
                   notifications, preferences, calls>>

\* login_required, permission_required and the can_update check that open
\* return_performance_agreement and performance_agreement_hr_verify
HRGuarded(view, u, action, body) ==
    IF ~is_authenticated(u) \/ ~has_change_perm(u)
    THEN /\ response' = Resp(view, u, action, "login")
         /\ UNCHANGED agreement
    ELSE IF ~can_update_performance_agreement(u, agreement)
    THEN /\ response' = Resp(view, u, action, "denied")
         /\ UNCHANGED agreement
    ELSE body

\* the status return_performance_agreement assigns
ReturnedStatus == DRAFT

return_performance_agreement(u, method, return_reason) ==
    /\ agreement # NoAgreement
    /\ HRGuarded("return", u, method,
         IF agreement.status # PENDING_HR_VERIFICATION
         THEN /\ response' = Resp("return", u, method, "error")
              /\ UNCHANGED agreement
         ELSE IF method # "POST"
         THEN /\ response' = Resp("return", u, method, "page")
              /\ UNCHANGED agreement
         ELSE IF return_reason = ""
         THEN /\ response' = Resp("return", u, method, "error")
              /\ UNCHANGED agreement
         ELSE /\ agreement' = [agreement EXCEPT !.status = ReturnedStatus,
                                                !.return_reason = return_reason,
                                                !.return_date = "SET"]
              /\ response' = Resp("return", u, method, "success"))
    /\ IF response'.outcome = "success"
       THEN /\ Len(audit) < MaxAudit
            /\ audit' = log_audit_event(audit, u, ACTION_UPDATE, "PerformanceAgreement")
       ELSE UNCHANGED audit
    /\ UNCHANGED <<midyear, midyear_reviews, final, plans, accounts,
                   notifications, preferences, calls>>

performance_agreement_hr_verify(u, method, hr_comments) ==
    /\ agreement # NoAgreement
    /\ HRGuarded("hr_verify", u, method,
         IF agreement.status # PENDING_HR_VERIFICATION
         THEN /\ response' = Resp("hr_verify", u, method, "error")
              /\ UNCHANGED agreement
         ELSE IF method # "POST"
         THEN /\ response' = Resp("hr_verify", u, method, "page")
              /\ UNCHANGED agreement
         ELSE /\ agreement' = HRVerified(agreement, u, hr_comments)
              /\ response' = Resp("hr_verify", u, method, "success"))
    /\ IF response'.outcome = "success"
       THEN /\ Len(audit) < MaxAudit
            /\ audit' = log_audit_event(audit, u, ACTION_VERIFY, "PerformanceAgreement")
       ELSE UNCHANGED audit
    /\ UNCHANGED <<midyear, midyear_reviews, final, plans, accounts,
                   notifications, preferences, calls>>

----------------------------------------------------------------------------
(* The agreement workflow *)

\* rows the database may hold when the model starts: none, or one whose
\* status was set through the admin site's change form
SeededAgreement(s) ==
    [NewAgreement("emp", <<Hundred>>) EXCEPT
        !.status = s,
        !.plan_start_date = PlanDates[1],
        !.plan_end_date = PlanDates[2],
        !.completion_date = IF s = COMPLETED THEN "SET" ELSE "NULL"]

NoReview == [status |-> "NO_ROW"]

InitPA ==
    /\ agreement \in {NoAgreement} \cup {SeededAgreement(s) : s \in STATUS_CHOICES}
    /\ response = NoResponse
    /\ midyear = NoReview
    /\ midyear_reviews = 0
    /\ final = NoReview
    /\ plans = <<>>
    /\ audit = <<>>
    /\ accounts = Users
    /\ notifications = <<>>
    /\ preferences = [u \in Users |-> "ON"]
    /\ calls = NoCalls

\* users whose requests reach the agreement endpoints: every role, and an
\* employee unrelated to the agreement
AgreementUsers == {"emp", "sup", "appr", "hr", "other"}

Create ==
    \E u \in AgreementUsers, posted_status \in STATUS_CHOICES,
       kras \in KraCreateInputs :
        PerformanceAgreementCreateView(u, posted_status, PlanDates, kras, <<>>)

Update ==
    \E u \in AgreementUsers, sa \in SubmitActions, c, bn \in Texts, kras \in KraInputs :
        PerformanceAgreementUpdateView(u, sa, c, bn, PlanDates, kras, <<>>)

Submit == \E u \in AgreementUsers : performance_agreement_submit(u)

Approve == \E u \in AgreementUsers : performance_agreement_approve(u)

Reject ==
    \E u \in AgreementUsers, m \in Methods, r \in Texts :
        performance_agreement_reject(u, m, r)

Delete == \E u \in AgreementUsers, m \in Methods : performance_agreement_delete(u, m)

Return ==
    \E u \in AgreementUsers, m \in Methods, r \in Texts :
        return_performance_agreement(u, m, r)

HRVerify ==
    \E u \in AgreementUsers, m \in Methods, c \in Texts :
        performance_agreement_hr_verify(u, m, c)

NextPA ==
    \/ Create
    \/ Update
    \/ Submit
    \/ Approve
    \/ Reject
    \/ Delete
    \/ Return
    \/ HRVerify

SpecPA == InitPA /\ [][NextPA]_vars

----------------------------------------------------------------------------
(* MidYearReview and FinalReview *)

\* the fields of Notification
NotificationFields ==
    {"recipient", "notification_type", "title", "message",
     "related_object_type", "related_object_id", "created_at", "read_at",
     "email_sent"}

\* Notification.objects.create(**kwargs): a keyword that is not a field
\* raises TypeError
NotificationCreate(kwargs) ==
    IF kwargs \subseteq NotificationFields THEN "success" ELSE "exception"

\* the keywords the final-review and improvement-plan views pass
UserMessageLink == {"user", "message", "link"}

\* the choices declared on MidYearReview.status and on FinalReview.status
REVIEW_STATUS_CHOICES ==
    {"DRAFT", "PENDING_EMPLOYEE_RATING", "PENDING_SUPERVISOR_RATING",
     "PENDING_SUPERVISOR_SIGNOFF", "PENDING_MANAGER_APPROVAL", "COMPLETED",
     "REJECTED"}

\* a KRAMidYearRating row: a rating of 0 stands for NULL
KRAMidYearRating(employee_rating, supervisor_rating, supervisor_comments) ==
    [employee_rating |-> employee_rating,
     supervisor_rating |-> supervisor_rating,
     supervisor_comments |-> supervisor_comments]

Unrated == KRAMidYearRating(0, 0, "")

\* kra_rating is the review's rating row for the agreement's KRA
NewReview(s) ==
    [status |-> s, employee_rating_date |-> "NULL",
     supervisor_rating_date |-> "NULL", supervisor_signoff_date |-> "NULL",
     manager_approval_date |-> "NULL", completion_date |-> "NULL",
     comments |-> "", kra_rating |-> Unrated]

\* can_edit allowing edits in Draft only
MidYearReview_can_edit_DraftOnly(r) == r.status = "DRAFT"

\* MidYearReview.can_edit
MidYearReview_can_edit(r) == r.status # "COMPLETED"

\* FinalReview.can_edit
FinalReview_can_edit(r) == r.status # "COMPLETED"

\* MidYearReviewForm.__init__ and FinalReviewForm.__init__ narrow the
\* performance_agreement choices by the requester's role; a posted agreement
\* outside them makes the form invalid
ReviewFormValid(u, a) ==
    CASE role(u) = EMPLOYEE -> a.employee = u
      [] role(u) = MANAGER -> manager(a.employee) = u
      [] role(u) = HR -> TRUE
      [] OTHER -> FALSE

\* MidYearReviewPermissionMixin.test_func and FinalReviewPermissionMixin
\* .test_func, run by dispatch() before self.object exists; the create URLs
\* carry no performance_agreement_id
ReviewPermissionMixin_test_func(permission_type, has_object, allowed) ==
    IF ~has_object THEN TRUE ELSE allowed

can_update_midyear_review(u, r, a) ==
    IF ~is_authenticated(u) THEN FALSE
    ELSE IF is_superuser(u) \/ role(u) = HR THEN TRUE
    ELSE IF a.employee = u /\ r.status \in {"DRAFT", "PENDING_EMPLOYEE_RATING"}
    THEN TRUE
    ELSE IF /\ a.supervisor = u
            /\ r.status \in {"PENDING_SUPERVISOR_RATING",
                             "PENDING_SUPERVISOR_SIGNOFF"}
    THEN TRUE
    ELSE FALSE

can_update_final_review(u, r, a) ==
    IF ~is_authenticated(u) THEN FALSE
    ELSE IF is_superuser(u) \/ role(u) = HR THEN TRUE
    ELSE IF a.employee = u /\ r.status \in {"DRAFT", "PENDING_EMPLOYEE_RATING"}
    THEN TRUE
    ELSE IF /\ a.supervisor = u
            /\ r.status \in {"PENDING_SUPERVISOR_RATING",
                             "PENDING_SUPERVISOR_SIGNOFF"}
    THEN TRUE
    ELSE FALSE

\* the status the return_to_employee action assigns
ReturnedToEmployee == "RETURNED"

\* kra_formset.instance is set to the saved review before kra_formset.save():
\* the rating row is created with every posted field
MidYearReviewCreateView(u, rating) ==
    /\ agreement # NoAgreement
    /\ midyear_reviews < MaxReviews
    /\ IF ~ReviewPermissionMixin_test_func("create", FALSE, TRUE)
       THEN /\ response' = Resp("midyear_create", u, "POST", "denied")
            /\ UNCHANGED <<midyear, midyear_reviews>>
       ELSE IF ~ReviewFormValid(u, agreement)
       THEN /\ response' = Resp("midyear_create", u, "POST", "invalid")
            /\ UNCHANGED <<midyear, midyear_reviews>>
       ELSE IF u = agreement.supervisor
       THEN /\ midyear' = [NewReview("PENDING_EMPLOYEE_RATING") EXCEPT
                              !.kra_rating = rating]
            /\ midyear_reviews' = midyear_reviews + 1
            /\ response' = Resp("midyear_create", u, "POST", "success")
       ELSE /\ midyear' = [NewReview("PENDING_SUPERVISOR_RATING") EXCEPT
                              !.employee_rating_date = "SET",
                              !.kra_rating = rating]
            /\ midyear_reviews' = midyear_reviews + 1
            /\ response' = Resp("midyear_create", u, "POST", "success")
    /\ UNCHANGED <<agreement, final, plans, audit, accounts,
                   notifications, preferences, calls>>

MidYearActions ==
    {"save", "submit_employee_rating", "submit_supervisor_rating",
     "supervisor_signoff", "manager_approve", "return_to_employee",
     "return_to_supervisor"}

\* what a posted rating formset holds: no forms (the page renders none),
\* forms naming stored rating rows, or extra forms
RatingPosts == {"no_forms", "stored_rows", "extra_forms"}

\* the update view's rating formsets given instance=self.object
RatingFormSetBound_WithInstance == TRUE

\* MidYearReviewUpdateView.get_context_data builds the rating formsets
\* without instance=: BaseInlineFormSet then takes an unsaved MidYearReview
\* as parent and an empty queryset, whatever queryset= is passed
RatingFormSetBound == FALSE

\* kra_formset.is_valid(): the id of a stored row is outside the empty
\* queryset
RatingFormSetValid(rating_post) ==
    RatingFormSetBound \/ rating_post # "stored_rows"

\* kra_formset.save() raises ValueError when an extra form is saved against
\* the unsaved parent
RatingFormSetRaises(rating_post) ==
    ~RatingFormSetBound /\ rating_post = "extra_forms"

\* the rating row after kra_formset.save()
RatingFormSetSave(stored, rating_post, rating) ==
    IF RatingFormSetBound /\ rating_post # "no_forms" THEN rating ELSE stored

\* form.save() and kra_formset.save() come before the action is looked at
MidYearReviewUpdateView(u, submit_action, c, rating_post, rating) ==
    /\ agreement # NoAgreement
    /\ midyear # NoReview
    /\ LET saved ==
               [midyear EXCEPT
                   !.comments = c,
                   !.kra_rating =
                       RatingFormSetSave(midyear.kra_rating, rating_post,
                                         rating)]
           R(outcome) == Resp("midyear_update", u, submit_action, outcome)
           ManagerOrHR ==
               \/ u = agreement.approver
               \/ role(u) = HR /\ saved.status = "PENDING_MANAGER_APPROVAL"
       IN
       IF ~ReviewPermissionMixin_test_func(
              "update", ObjectSetAtDispatch,
              can_update_midyear_review(u, midyear, agreement))
       THEN /\ response' = R("denied")
            /\ UNCHANGED midyear
       ELSE IF ~ReviewFormValid(u, agreement) \/ ~RatingFormSetValid(rating_post)
       THEN /\ response' = R("invalid")
            /\ UNCHANGED midyear
       ELSE IF RatingFormSetRaises(rating_post)
       THEN /\ midyear' = saved
            /\ response' = R("exception")
       ELSE IF submit_action = "submit_employee_rating"
       THEN IF u = agreement.employee
            THEN /\ midyear' = [saved EXCEPT
                                   !.status = "PENDING_SUPERVISOR_RATING",
                                   !.employee_rating_date = "SET"]
                 /\ response' = R("success")
            ELSE /\ midyear' = saved
                 /\ response' = R("error")
       ELSE IF submit_action = "submit_supervisor_rating"
       THEN IF u = agreement.supervisor
            THEN /\ midyear' = [saved EXCEPT
                                   !.status = "PENDING_SUPERVISOR_SIGNOFF",
                                   !.supervisor_rating_date = "SET"]
                 /\ response' = R("success")
            ELSE /\ midyear' = saved
                 /\ response' = R("error")
       ELSE IF submit_action = "supervisor_signoff"
       THEN IF u = agreement.supervisor
            THEN /\ midyear' = [saved EXCEPT
                                   !.status = "PENDING_MANAGER_APPROVAL",
                                   !.supervisor_signoff_date = "SET"]
                 /\ response' = R("success")
            ELSE /\ midyear' = saved
                 /\ response' = R("error")
       ELSE IF submit_action = "manager_approve"
       THEN IF ManagerOrHR
            THEN /\ midyear' = [saved EXCEPT
                                   !.status = "COMPLETED",
                                   !.manager_approval_date = "SET"]
                 /\ response' = R("success")
            ELSE /\ midyear' = saved
                 /\ response' = R("error")
       ELSE IF submit_action = "return_to_employee"
       THEN IF u = agreement.supervisor
            THEN /\ midyear' = [saved EXCEPT !.status = ReturnedToEmployee]
                 /\ response' = R("success")
            ELSE /\ midyear' = saved
                 /\ response' = R("error")
       ELSE IF submit_action = "return_to_supervisor"
       THEN IF ManagerOrHR
            THEN /\ midyear' = [saved EXCEPT
                                   !.status = "PENDING_SUPERVISOR_SIGNOFF"]
                 /\ response' = R("success")
            ELSE /\ midyear' = saved
                 /\ response' = R("error")
       ELSE /\ midyear' = saved
            /\ response' = R("success")
    /\ UNCHANGED <<agreement, midyear_reviews, final, plans, audit, accounts,
                   notifications, preferences, calls>>

\* the statuses FinalReviewCreateView.form_valid assigns
FinalCreateStatus(u, submit) ==
    IF role(u) = MANAGER THEN "SUPERVISOR_REVIEWED"
    ELSE IF submit THEN "PENDING_SUPERVISOR_REVIEW"
    ELSE "DRAFT"

FinalReviewCreateView(u, submit) ==
    /\ agreement # NoAgreement
    /\ final = NoReview
    /\ IF ~ReviewPermissionMixin_test_func("create", FALSE, TRUE)
       THEN /\ response' = Resp("final_create", u, "POST", "denied")
            /\ UNCHANGED final
       ELSE IF ~ReviewFormValid(u, agreement)
       THEN /\ response' = Resp("final_create", u, "POST", "invalid")
            /\ UNCHANGED final
       ELSE /\ final' = NewReview(FinalCreateStatus(u, submit))
            /\ response' =
                 Resp("final_create", u, "POST",
                      IF /\ FinalCreateStatus(u, submit) = "PENDING_SUPERVISOR_REVIEW"
                         /\ manager(u) # "NULL"
                      THEN NotificationCreate(UserMessageLink)
                      ELSE "success")
    /\ UNCHANGED <<agreement, midyear, midyear_reviews, plans, audit, accounts,
                   notifications, preferences, calls>>

FinalActions == {"", "submit", "review", "approve", "return"}

\* FinalReviewUpdateView.form_valid for a request that posts no GAF rating
\* forms.  Each action branch saves the review and then creates its
\* notifications
FinalReviewUpdateView(u, action, c) ==
    /\ agreement # NoAgreement
    /\ final # NoReview
    /\ LET saved == [final EXCEPT !.comments = c]
           R(outcome) == Resp("final_update", u, action, outcome)
       IN
       IF ~ReviewPermissionMixin_test_func(
              "update", ObjectSetAtDispatch,
              can_update_final_review(u, final, agreement))
       THEN /\ response' = R("denied")
            /\ UNCHANGED final
       ELSE IF ~ReviewFormValid(u, agreement)
       THEN /\ response' = R("invalid")
            /\ UNCHANGED final
       ELSE IF u = agreement.employee /\ action = "submit"
       THEN /\ final' = [saved EXCEPT !.status = "PENDING_SUPERVISOR_REVIEW",
                                      !.employee_rating_date = "SET"]
            /\ response' = R(IF manager(agreement.employee) # "NULL"
                              THEN NotificationCreate(UserMessageLink)
                              ELSE "success")
       ELSE IF role(u) = MANAGER /\ action = "review"
       THEN /\ final' = [saved EXCEPT !.status = "SUPERVISOR_REVIEWED",
                                      !.supervisor_rating_date = "SET"]
            /\ response' = R(NotificationCreate(UserMessageLink))
       ELSE IF role(u) = APPROVER /\ action = "approve"
       THEN /\ final' = [saved EXCEPT !.status = "APPROVED"]
            /\ response' = R(NotificationCreate(UserMessageLink))
       ELSE IF action = "return"
       THEN /\ final' = [saved EXCEPT !.status = "RETURNED"]
            /\ response' = R(NotificationCreate(UserMessageLink))
       ELSE /\ final' = saved
            /\ response' = R("success")
    /\ UNCHANGED <<agreement, midyear, midyear_reviews, plans, audit, accounts,
                   notifications, preferences, calls>>

\* a mid-year review row put in a declared status through the admin site,
\* with the completion date that belongs to the status
SeededReview(s) ==
    [NewReview(s) EXCEPT
        !.completion_date = IF s = "COMPLETED" THEN "SET" ELSE "NULL"]

\* the reviews of one agreement.  A mid-year review row may have been put
\* in any declared status through the admin site; FinalReview is not
\* registered there
InitReview ==
    /\ agreement = SeededAgreement(COMPLETED)
    /\ response = NoResponse
    /\ midyear \in {NoReview} \cup {SeededReview(s) : s \in REVIEW_STATUS_CHOICES}
    /\ midyear_reviews = IF midyear = NoReview THEN 0 ELSE 1
    /\ final = NoReview
    /\ plans = <<>>
    /\ audit = <<>>
    /\ accounts = Users
    /\ notifications = <<>>
    /\ preferences = [u \in Users |-> "ON"]
    /\ calls = NoCalls

\* users whose requests reach the review endpoints
ReviewUsers == {"emp", "sup", "appr", "hr"}

\* the review workflow follows the first mid-year review of the agreement
MidYearCreate ==
    \E u \in ReviewUsers :
        midyear = NoReview /\ MidYearReviewCreateView(u, Unrated)

MidYearUpdate ==
    \E u \in ReviewUsers, sa \in MidYearActions, c \in Texts :
        MidYearReviewUpdateView(u, sa, c, "no_forms", Unrated)

FinalCreate ==
    \E u \in ReviewUsers, submit \in BOOLEAN : FinalReviewCreateView(u, submit)

FinalUpdate ==
    \E u \in ReviewUsers, a \in FinalActions, c \in Texts :
        FinalReviewUpdateView(u, a, c)

NextReview ==
    \/ MidYearCreate
    \/ MidYearUpdate
    \/ FinalCreate
    \/ FinalUpdate

SpecReview == InitReview /\ [][NextReview]_vars

----------------------------------------------------------------------------
(* ImprovementPlan *)

\* employees that improvement plans are kept for
PlanEmployees == {"emp", "other"}

\* users whose requests reach the improvement-plan endpoints
PlanUsers == {"sup", "hr", "emp"}

PLAN_STATUS_CHOICES == {"DRAFT", "IN_PROGRESS", "COMPLETED"}

MIDYEAR_REVIEW == "MYR"

\* items holds the source_type of each ImprovementPlanItem row of the plan
Plan(e, sup, s) ==
    [employee |-> e, supervisor |-> sup, status |-> s, items |-> {}]

\* QuerySet.filter(employee=e, status__in=statuses): indexes of matching rows
PlansOf(e, statuses) ==
    {i \in 1..Len(plans) : plans[i].employee = e /\ plans[i].status \in statuses}

\* ImprovementPlan.get_or_create_current_plan
get_or_create_current_plan(e) ==
    /\ IF PlansOf(e, {"DRAFT", "IN_PROGRESS"}) # {}
       THEN UNCHANGED plans
       ELSE /\ Len(plans) < MaxPlans
            /\ plans' = Append(plans, Plan(e, manager(e), "DRAFT"))
    /\ response' = Resp("get_or_create_current_plan", e, "call", "success")
    /\ UNCHANGED <<agreement, midyear, midyear_reviews, final, audit, accounts,
                   notifications, preferences, calls>>

\* feedback_views.add_to_improvement_plan with all three fields posted.  The
\* item is created with keyword arguments ImprovementPlanItem does not have;
\* the TypeError is caught and reported, after the plan has been saved
add_to_improvement_plan(u, e) ==
    /\ IF PlansOf(e, {"IN_PROGRESS"}) # {}
       THEN UNCHANGED plans
       ELSE /\ Len(plans) < MaxPlans
            /\ plans' = Append(plans, Plan(e, u, "IN_PROGRESS"))
    /\ response' = Resp("add_to_improvement_plan", u, "POST", "error")
    /\ UNCHANGED <<agreement, midyear, midyear_reviews, final, audit, accounts,
                   notifications, preferences, calls>>

\* ImprovementPlanPermissionMixin.test_func as dispatch() runs it
ImprovementPlanPermissionMixin_test_func(permission_type, has_object, allowed) ==
    IF ~has_object THEN TRUE ELSE allowed

can_update_improvement_plan(u, p) ==
    IF ~is_authenticated(u) THEN FALSE
    ELSE IF is_superuser(u) \/ role(u) = HR THEN TRUE
    ELSE IF p.supervisor = u THEN TRUE
    ELSE FALSE

\* ImprovementPlanUpdateView.form_valid: form.save(), then a notification
\* when the status changed
ImprovementPlanUpdateView(u, i, s) ==
    /\ i \in 1..Len(plans)
    /\ IF ~ImprovementPlanPermissionMixin_test_func(
              "update", ObjectSetAtDispatch,
              can_update_improvement_plan(u, plans[i]))
       THEN /\ response' = Resp("plan_update", u, s, "denied")
            /\ UNCHANGED plans
       ELSE /\ plans' = [plans EXCEPT ![i].status = s]
            /\ response' =
                 Resp("plan_update", u, s,
                      IF s # plans[i].status
                      THEN NotificationCreate(UserMessageLink)
                      ELSE "success")
    /\ UNCHANGED <<agreement, midyear, midyear_reviews, final, audit, accounts,
                   notifications, preferences, calls>>

InitPlan ==
    /\ agreement = NoAgreement
    /\ response = NoResponse
    /\ midyear = NoReview
    /\ midyear_reviews = 0
    /\ final = NoReview
    /\ plans = <<>>
    /\ audit = <<>>
    /\ accounts = Users
    /\ notifications = <<>>
    /\ preferences = [u \in Users |-> "ON"]
    /\ calls = NoCalls

GetOrCreatePlan == \E e \in PlanEmployees : get_or_create_current_plan(e)

AddToPlan ==
    \E u \in PlanUsers, e \in PlanEmployees : add_to_improvement_plan(u, e)

PlanUpdate ==
    \E u \in PlanUsers, i \in 1..MaxPlans, s \in PLAN_STATUS_CHOICES :
        ImprovementPlanUpdateView(u, i, s)

NextPlan ==
    \/ GetOrCreatePlan
    \/ AddToPlan
    \/ PlanUpdate

SpecPlan == InitPlan /\ [][NextPlan]_vars

----------------------------------------------------------------------------
(* Login/logout signals and user_management/views.py *)

\* user_logged_in_callback
user_logged_in_callback(u) ==
    /\ u \in accounts
    /\ Len(audit) < MaxAudit
    /\ audit' = Append(audit, AuditEntry(u, ACTION_LOGIN, ""))
    /\ response' = Resp("login", u, "POST", "success")
    /\ UNCHANGED <<agreement, midyear, midyear_reviews, final, plans, accounts,
                   notifications, preferences, calls>>

\* user_logged_out_callback, for a request that carries a logged-in user
user_logged_out_callback(u) ==
    /\ u \in accounts
    /\ Len(audit) < MaxAudit
    /\ audit' = Append(audit, AuditEntry(u, ACTION_LOGOUT, ""))
    /\ response' = Resp("logout", u, "POST", "success")
    /\ UNCHANGED <<agreement, midyear, midyear_reviews, final, plans, accounts,
                   notifications, preferences, calls>>

is_hr_or_admin(u) == is_superuser(u) \/ role(u) = HR

\* UserCreateView: the username must be new
UserCreateView(u, new) ==
    /\ IF ~is_authenticated(u)
       THEN /\ response' = Resp("user_create", u, "POST", "login")
            /\ UNCHANGED accounts
       ELSE IF ~is_hr_or_admin(u)
       THEN /\ response' = Resp("user_create", u, "POST", "denied")
            /\ UNCHANGED accounts
       ELSE IF new \in accounts
       THEN /\ response' = Resp("user_create", u, "POST", "invalid")
            /\ UNCHANGED accounts
       ELSE /\ accounts' = accounts \cup {new}
            /\ response' = Resp("user_create", u, "POST", "success")
    /\ UNCHANGED <<agreement, midyear, midyear_reviews, final, plans, audit,
                   notifications, preferences, calls>>

\* UserUpdateView: the form has no field that the model follows
UserUpdateView(u, target) ==
    /\ target \in accounts
    /\ IF ~is_authenticated(u)
       THEN response' = Resp("user_update", u, "POST", "login")
       ELSE IF ~is_hr_or_admin(u)
       THEN response' = Resp("user_update", u, "POST", "denied")
       ELSE response' = Resp("user_update", u, "POST", "success")
    /\ UNCHANGED <<agreement, midyear, midyear_reviews, final, plans, audit, accounts,
                   notifications, preferences, calls>>

\* on_delete of the foreign keys of PerformanceAgreement: employee cascades,
\* hr_verifier is set to null.  The supervisor and the approver of the
\* agreement followed here are not among the users that are deleted
AgreementAfterUserDelete(a, target) ==
    IF a = NoAgreement THEN a
    ELSE IF a.employee = target THEN NoAgreement
    ELSE IF a.hr_verifier = target THEN [a EXCEPT !.hr_verifier = "NULL"]
    ELSE a

\* AuditTrail.user is declared with on_delete=CASCADE
AuditAfterUserDelete(log, target) ==
    SelectSeq(log, LAMBDA e : e.user # target)

\* UserDeleteView: DeleteView deletes the row on POST, with its cascades
UserDeleteView(u, method, target) ==
    /\ target \in accounts
    /\ IF ~is_authenticated(u)
       THEN /\ response' = Resp("user_delete", u, method, "login")
            /\ UNCHANGED <<agreement, audit, accounts>>
       ELSE IF ~is_hr_or_admin(u)
       THEN /\ response' = Resp("user_delete", u, method, "denied")
            /\ UNCHANGED <<agreement, audit, accounts>>
       ELSE IF method # "POST"
       THEN /\ response' = Resp("user_delete", u, method, "page")
            /\ UNCHANGED <<agreement, audit, accounts>>
       ELSE /\ accounts' = accounts \ {target}
            /\ audit' = AuditAfterUserDelete(audit, target)
            /\ agreement' = AgreementAfterUserDelete(agreement, target)
            /\ response' = Resp("user_delete", u, method, "success")
    /\ UNCHANGED <<midyear, midyear_reviews, final, plans,
                   notifications, preferences, calls>>

\* the users that log in and out, and that user management creates, updates
\* and deletes
ManagedUsers == {"emp", "hr"}

\* the users that make user-management requests
ManagingUsers == {"emp", "hr", "admin"}

InitAudit ==
    /\ agreement = SeededAgreement(PENDING_HR_VERIFICATION)
    /\ response = NoResponse
    /\ midyear = NoReview
    /\ midyear_reviews = 0
    /\ final = NoReview
    /\ plans = <<>>
    /\ audit = <<>>
    /\ accounts = Users
    /\ notifications = <<>>
    /\ preferences = [u \in Users |-> "ON"]
    /\ calls = NoCalls

Login == \E u \in ManagedUsers : user_logged_in_callback(u)

Logout == \E u \in ManagedUsers : user_logged_out_callback(u)

UserCreate ==
    \E u \in ManagingUsers, new \in ManagedUsers : UserCreateView(u, new)

UserUpdate ==
    \E u \in ManagingUsers, target \in ManagedUsers : UserUpdateView(u, target)

UserDelete ==
    \E u \in ManagingUsers, m \in Methods, target \in ManagedUsers :
        UserDeleteView(u, m, target)

NextAudit ==
    \/ Login
    \/ Logout
    \/ UserCreate
    \/ UserUpdate
    \/ UserDelete
    \/ Return
    \/ HRVerify

SpecAudit == InitAudit /\ [][NextAudit]_vars

----------------------------------------------------------------------------
(* Properties of the agreement workflow *)

IsHRVerification(r) ==
    \/ r.view = "hr_verify"
    \/ r.view = "update" /\ r.action = "hr_verify"

IsWorkflowRequest(r) ==
    \/ r.view \in {"submit", "approve", "reject"}
    \/ r.view = "update" /\ r.action # "save"

\* C1: the status of an agreement becomes Completed only by an HR
\* verification request made while the status is Pending-HR-Verification.
C1_CompletedOnlyByHRVerification ==
    [][(agreement.status # COMPLETED /\ agreement'.status = COMPLETED)
          => (agreement.status = PENDING_HR_VERIFICATION
              /\ IsHRVerification(response'))]_vars

\* C2: a delete request removes the agreement only if the requester's role
\* is HR and the status is Draft or Rejected; otherwise the row remains.
C2_DeleteOnlyByHRInDraftOrRejected ==
    [][(response'.view = "delete" /\ agreement # NoAgreement
        /\ agreement' = NoAgreement)
          => (role(response'.user) = HR
              /\ agreement.status \in {DRAFT, REJECTED})]_vars

\* C3: the update view changes nothing of an agreement unless
\* can_update_performance_agreement holds for the requesting user.
C3_UpdateRequiresCanUpdate ==
    [][(response'.view = "update" /\ agreement' # agreement)
          => can_update_performance_agreement(response'.user, agreement)]_vars

\* C4: the workflow that takes a Draft agreement to Completed begins with
\* the employee's submit-for-review, which is carried out: the request
\* succeeds and the agreement leaves Draft.
C4_SubmitForReviewIsCarriedOut ==
    [][(/\ \/ response'.view = "submit"
           \/ response'.view = "update" /\ response'.action = "submit_for_review"
        /\ agreement # NoAgreement
        /\ agreement.status = DRAFT
        /\ response'.user = agreement.employee
        /\ response'.outcome # "invalid")
          => (response'.outcome = "success" /\ agreement'.status # DRAFT)]_vars

\* C5: whatever requests the agreement endpoints have served, the status of
\* a stored agreement is one of the nine declared statuses.
C5_StatusIsDeclared ==
    agreement # NoAgreement => agreement.status \in STATUS_CHOICES

\* an agreement returned by HR, approved again and then verified
C5_Witness ==
    /\ agreement # NoAgreement
    /\ agreement.status = COMPLETED
    /\ agreement.return_date = "SET"
    /\ response.view = "hr_verify"
    /\ response.outcome = "success"

\* C8: when HR returns an agreement in Pending-HR-Verification with a
\* non-empty reason, the status becomes Returned-for-Correction and the
\* return reason and date are recorded.
C8_ReturnSetsReturnedForCorrection ==
    (response.view = "return" /\ response.outcome = "success")
        => /\ agreement.status = RETURNED_FOR_CORRECTION
           /\ agreement.return_reason # ""
           /\ agreement.return_date = "SET"

\* C9: a reject request that the permission check admits sets the status to
\* Rejected and records the rejection on the agreement; the date it stamps
\* does not depend on the reason text given.
C9_RejectRecordsRejection ==
    (/\ response.view = "reject"
     /\ response.action = "POST"
     /\ response.outcome \notin {"login", "denied"})
        => /\ agreement.status = REJECTED
           /\ agreement.rejection_date = "SET"

\* statuses in which nothing is pending, so that no approval or rejection
\* can be carried out
NothingPending == {DRAFT, COMPLETED, REJECTED, RETURNED_FOR_CORRECTION}

\* C10: a submit on an agreement that is not in Draft, and an approve or
\* reject on an agreement with nothing pending, does not end in an unhandled
\* exception.
C10_NoUnhandledException ==
    [][(/\ agreement # NoAgreement
        /\ IsWorkflowRequest(response')
        /\ IF \/ response'.view = "submit"
              \/ response'.action = "submit_for_review"
           THEN agreement.status # DRAFT
           ELSE agreement.status \in NothingPending)
          => response'.outcome # "exception"]_vars

\* C6: whatever requests the review endpoints have served, the status of a
\* stored mid-year or final review is one of the seven declared statuses.
C6_ReviewStatusIsDeclared ==
    /\ midyear # NoReview => midyear.status \in REVIEW_STATUS_CHOICES
    /\ final # NoReview => final.status \in REVIEW_STATUS_CHOICES

\* the Draft and In-Progress plans of an employee
ActivePlans(e) == PlansOf(e, {"DRAFT", "IN_PROGRESS"})

\* C7: every employee has at most one improvement plan in Draft or
\* In-Progress.
C7_AtMostOneActivePlan ==
    \A e \in PlanEmployees : Cardinality(ActivePlans(e)) <= 1

\* C11: the audit trail is append-only: every entry that exists remains, at
\* its place and with its content, whatever operation follows.
C11_AuditTrailAppendOnly ==
    [][/\ Len(audit') >= Len(audit)
       /\ \A i \in 1..Len(audit) : audit'[i] = audit[i]]_vars

\* the create, update, delete and workflow endpoints of an agreement
AgreementViews ==
    {"create", "update", "delete", "submit", "approve", "reject", "return",
     "hr_verify"}

\* C12: every create, update, delete and workflow action carried out on an
\* agreement appends an audit-trail entry whose user is the acting user.
C12_AgreementActionsAreAudited ==
    [][(response'.view \in AgreementViews /\ response'.outcome = "success")
          => /\ Len(audit') = Len(audit) + 1
             /\ audit'[Len(audit')].user = response'.user]_vars

\* C13: an agreement or a mid-year review whose status is Completed has its
\* completion_date set.
C13_CompletedHasCompletionDate ==
    /\ (agreement # NoAgreement /\ agreement.status = COMPLETED)
          => agreement.completion_date = "SET"
    /\ (midyear # NoReview /\ midyear.status = "COMPLETED")
          => midyear.completion_date = "SET"


----------------------------------------------------------------------------
\* The agreement form and its KRA formset: the create page and the update
\* page of one employee's Draft agreement, under every formset of up to
\* MaxForms forms and every pair of plan dates

MaxKras == 2
MaxForms == 2

KRAForms ==
    {KRAForm(r, w, d) : r \in 0..MaxKras, w \in Weightings, d \in BOOLEAN}

\* a formset carries at most one form for each stored row
KraPosts ==
    {p \in UNION {[1..n -> KRAForms] : n \in 1..MaxForms} :
        \A j, k \in 1..Len(p) : (j # k /\ p[j].row # 0) => p[j].row # p[k].row}

InitKRA ==
    /\ agreement = NoAgreement
    /\ response = NoResponse
    /\ midyear = NoReview
    /\ midyear_reviews = 0
    /\ final = NoReview
    /\ plans = <<>>
    /\ audit = <<>>
    /\ accounts = Users
    /\ notifications = <<>>
    /\ preferences = [u \in Users |-> "ON"]
    /\ calls = NoCalls

\* the plan dates a form posts: in order, reversed, equal, start left empty
DateInputs == {<<1, 2>>, <<2, 1>>, <<1, 1>>, <<0, 1>>}

KraCreate ==
    \E dates \in DateInputs, kras \in KraPosts :
        PerformanceAgreementCreateView("emp", DRAFT, dates, kras, <<>>)

KraUpdate ==
    \E bn \in Texts, dates \in DateInputs, kras \in KraPosts :
        /\ agreement # NoAgreement
        /\ Len(KRAFormSetSave(agreement.kras, kras)) <= MaxKras
        /\ PerformanceAgreementUpdateView("emp", "save", "", bn, dates, kras,
                                          <<>>)

NextKRA == KraCreate \/ KraUpdate

SpecKRA == InitKRA /\ [][NextKRA]_vars

\* C14: an agreement saved through the create view or the update view has KRA
\* weightings that total 100 within 0.01, and a formset the view rejects
\* leaves the stored agreement as it was
C14_SavedWeightingsTotalHundred ==
    [][/\ (/\ response'.view \in {"create", "update"}
           /\ response'.outcome = "success")
          => Abs(SumSeq(agreement'.kras) - Hundred) <= Tolerance
       /\ (/\ response'.view \in {"create", "update"}
           /\ response'.outcome = "invalid")
          => agreement' = agreement]_vars


----------------------------------------------------------------------------
\* Mid-year review requests against one agreement, the create page open to
\* every request

InitMidYear ==
    /\ agreement = SeededAgreement(COMPLETED)
    /\ response = NoResponse
    /\ midyear = NoReview
    /\ midyear_reviews = 0
    /\ final = NoReview
    /\ plans = <<>>
    /\ audit = <<>>
    /\ accounts = Users
    /\ notifications = <<>>
    /\ preferences = [u \in Users |-> "ON"]
    /\ calls = NoCalls

\* the supervisor ratings a rating formset posts
RatingInputs ==
    {Unrated, KRAMidYearRating(0, 2, "t"), KRAMidYearRating(3, 0, "")}

\* posted rating formsets: what the formset holds and the values of its form
RatingFormSetPosts ==
    {<<"no_forms", Unrated>>}
        \cup ({"stored_rows", "extra_forms"} \X (RatingInputs \ {Unrated}))

MidYearCreateAgain ==
    \E u \in ReviewUsers, rating \in RatingInputs :
        MidYearReviewCreateView(u, rating)

MidYearRate ==
    \E u \in ReviewUsers, sa \in MidYearActions, c \in Texts,
       post \in RatingFormSetPosts :
        MidYearReviewUpdateView(u, sa, c, post[1], post[2])

NextMidYear == MidYearCreateAgain \/ MidYearRate

SpecMidYear == InitMidYear /\ [][NextMidYear]_vars

\* C15: after any sequence of mid-year review create requests the agreement
\* has at most one mid-year review attached to it
C15_AtMostOneMidYearReview == midyear_reviews <= 1


\* C16: when a mid-year review becomes Completed and its KRA rating has a
\* supervisor rating of 2 or lower with a non-empty supervisor comment, the
\* employee's active improvement plan holds an item sourced from the review
C16_LowRatingsReachImprovementPlan ==
    [][(/\ midyear.status # "COMPLETED"
        /\ midyear'.status = "COMPLETED"
        /\ midyear'.kra_rating.supervisor_rating \in 1..2
        /\ midyear'.kra_rating.supervisor_comments # "")
       => \E i \in 1..Len(plans') :
              /\ plans'[i].employee = agreement'.employee
              /\ plans'[i].status \in {"DRAFT", "IN_PROGRESS"}
              /\ MIDYEAR_REVIEW \in plans'[i].items]_vars


----------------------------------------------------------------------------
(* notifications.notify_user *)

MaxNotifications == 2

\* a Notification row; "NULL" stands for None
Notification(recipient, notification_type, related_object_type, email_sent) ==
    [recipient |-> recipient, notification_type |-> notification_type,
     related_object_type |-> related_object_type, email_sent |-> email_sent]

\* the related_object_type arguments the callers pass
RelatedObjectTypes == {"performance_agreement", "midyear_review"}

\* how the email step can end: send_mail returns, send_mail raises, or
\* send_mail returns and the notification.save() after it raises
MailOutcomes == {"sent", "raises", "sent_save_raises"}

\* user.notification_preferences, created with the field default when the
\* row is missing
NotificationPrefs(prefs, user) ==
    IF prefs[user] = "MISSING" THEN [prefs EXCEPT ![user] = "ON"] ELSE prefs

\* the stored email_sent flag set after send_mail returned
EmailSent_SetBeforeSend(enabled, mail) == enabled

\* the stored email_sent flag: set and saved only after send_mail returned
EmailSent(enabled, mail) == enabled /\ mail = "sent"

\* notify_user; related_object_type is a CharField without null=True
notify_user(user, notification_type, related_object_type, mail) ==
    /\ Len(notifications) < MaxNotifications
    /\ IF related_object_type = "NULL"
       THEN /\ response' = Resp("notify_user", user, mail, "exception")
            /\ UNCHANGED <<notifications, preferences, calls>>
       ELSE /\ preferences' = NotificationPrefs(preferences, user)
            /\ notifications' =
                 Append(notifications,
                        Notification(user, notification_type,
                                     related_object_type,
                                     EmailSent(preferences'[user] = "ON", mail)))
            /\ response' = Resp("notify_user", user, mail, "returned")
    /\ UNCHANGED <<agreement, midyear, midyear_reviews, final, plans, audit,
                   accounts, calls>>

\* notification_preferences, POST: get_or_create, then the posted checkbox
notification_preferences(u, on) ==
    /\ is_authenticated(u)
    /\ preferences' = [preferences EXCEPT ![u] = IF on THEN "ON" ELSE "OFF"]
    /\ response' = Resp("notification_preferences", u, "POST", "success")
    /\ UNCHANGED <<agreement, midyear, midyear_reviews, final, plans, audit,
                   accounts, notifications, calls>>

Recipients == {"emp", "sup"}

InitNotify ==
    /\ agreement = SeededAgreement(DRAFT)
    /\ response = NoResponse
    /\ midyear = NoReview
    /\ midyear_reviews = 0
    /\ final = NoReview
    /\ plans = <<>>
    /\ audit = <<>>
    /\ accounts = Users
    /\ notifications = <<>>
    /\ preferences \in
         {[u \in Users |-> IF u \in missing THEN "MISSING" ELSE "ON"] :
             missing \in SUBSET Recipients}
    /\ calls = NoCalls

Notify ==
    \E user \in Recipients, t \in {"APPROVAL", "STATUS_UPDATE"},
       rot \in RelatedObjectTypes, mail \in MailOutcomes :
        notify_user(user, t, rot, mail)

PreferenceUpdate ==
    \E u \in Recipients, on \in BOOLEAN : notification_preferences(u, on)

NextNotify == Notify \/ PreferenceUpdate

SpecNotify == InitNotify /\ [][NextNotify]_vars

C18_PlanEndsAfterStart ==
    agreement # NoAgreement
        => agreement.plan_end_date >= agreement.plan_start_date


\* C19: for the mid-year review and the final review, can_edit is false in
\* every state in which the status is Completed and true in every state in
\* which the status is anything else
C19_CanEditUnlessCompleted ==
    /\ midyear # NoReview =>
          /\ midyear.status = "COMPLETED" => ~MidYearReview_can_edit(midyear)
          /\ midyear.status # "COMPLETED" => MidYearReview_can_edit(midyear)
    /\ final # NoReview =>
          /\ final.status = "COMPLETED" => ~FinalReview_can_edit(final)
          /\ final.status # "COMPLETED" => FinalReview_can_edit(final)

\* a Completed mid-year review that cannot be edited beside a final review,
\* past Draft, that can
C19_Witness ==
    /\ midyear # NoReview
    /\ midyear.status = "COMPLETED"
    /\ ~MidYearReview_can_edit(midyear)
    /\ final # NoReview
    /\ final.status # "DRAFT"
    /\ FinalReview_can_edit(final)


\* C20: an agreement has status Draft immediately after it is created, at
\* the model level and through the create view, whatever status value the
\* request supplies
C20_CreatedInDraft ==
    [][(agreement = NoAgreement /\ agreement' # NoAgreement)
          => /\ agreement'.status = DRAFT
             /\ NewAgreement(agreement'.employee, agreement'.kras).status = DRAFT]_vars

\* the create view has just saved a row
C20_Witness ==
    /\ response.view = "create"
    /\ response.outcome = "success"
    /\ agreement # NoAgreement
    /\ agreement.status = DRAFT


----------------------------------------------------------------------------
(* KeyResponsibilityArea.calculate_weighted_score *)

\* agreed_rating is a nullable DecimalField with two decimal places, out of
\* 4: ratings are counted in hundredths, None standing for NULL
None == 0 - 1
AgreedRatings == {None, 0, 100, 250, 400}

\* weightings the KRA rows carry, in hundredths
ScoredWeightings == {0, 1, 4000, 9999, Hundred}

\* the truth value Python gives agreed_rating in the if statement: None and
\* Decimal zero are false
Truthy(agreed_rating) == agreed_rating # None /\ agreed_rating # 0

\* the product returned without the division by 100
calculate_weighted_score_Undivided(weighting, agreed_rating) ==
    IF Truthy(agreed_rating) THEN weighting * agreed_rating * 100 ELSE 0

\* (weighting * agreed_rating) / 100 on Decimals is exact; with both operands
\* in hundredths the quotient, counted in millionths, is their product
calculate_weighted_score(weighting, agreed_rating) ==
    IF Truthy(agreed_rating) THEN weighting * agreed_rating ELSE 0

\* caller p calls the method on a KRA row
CallWeightedScore(p, weighting, agreed_rating) ==
    /\ calls' = [calls EXCEPT ![p] =
                    [pc |-> "returned", method |-> "calculate_weighted_score",
                     weighting |-> weighting, agreed_rating |-> agreed_rating,
                     result |-> calculate_weighted_score(weighting,
                                                         agreed_rating)]]
    /\ UNCHANGED <<agreement, response, midyear, midyear_reviews, final, plans,
                   audit, accounts, notifications, preferences>>

InitScore ==
    /\ agreement = NoAgreement
    /\ response = NoResponse
    /\ midyear = NoReview
    /\ midyear_reviews = 0
    /\ final = NoReview
    /\ plans = <<>>
    /\ audit = <<>>
    /\ accounts = Users
    /\ notifications = <<>>
    /\ preferences = [u \in Users |-> "ON"]
    /\ calls = NoCalls

WeightedScore ==
    \E p \in Callers, w \in ScoredWeightings, r \in AgreedRatings :
        CallWeightedScore(p, w, r)

NextScore == WeightedScore

SpecScore == InitScore /\ [][NextScore]_vars

\* C21: the weighted score of a KRA equals weighting x agreed_rating / 100
\* whenever an agreed rating is set, and is 0 when no agreed rating is set
C21_WeightedScore ==
    \A p \in Callers :
        (calls[p].pc = "returned" /\ calls[p].method = "calculate_weighted_score")
        => IF calls[p].agreed_rating = None
           THEN calls[p].result = 0
           ELSE calls[p].result = calls[p].weighting * calls[p].agreed_rating

\* one call returned the score of a rated KRA, the other that of a KRA whose
\* agreed rating is NULL
C21_Witness ==
    /\ calls[1].pc = "returned"
    /\ calls[1].method = "calculate_weighted_score"
    /\ calls[1].agreed_rating = 250
    /\ calls[1].weighting = 4000
    /\ calls[1].result = 1000000
    /\ calls[2].pc = "returned"
    /\ calls[2].method = "calculate_weighted_score"
    /\ calls[2].agreed_rating = None
    /\ calls[2].result = 0


----------------------------------------------------------------------------
\* GAF formsets: the create page, the update page and the delete page of one
\* employee's Draft agreement

\* the 15 extra forms of the page, every factor ticked
FullGafPost == [i \in 1..Len(GafCatalogue) |-> GAFForm(0, GafCatalogue[i])]

\* the formsets posted: one extra form, a stored row given another factor,
\* one factor twice, the page's 15 forms or their tail, and 16 forms
GafPosts ==
    {<<GAFForm(0, f)>> : f \in {"GAF1", "GAF2", "GAF3", "GAF16"}}
    \cup {<<GAFForm(r, f)>> : r \in 1..2, f \in {"GAF1", "GAF2"}}
    \cup {<<GAFForm(0, "GAF1"), GAFForm(0, "GAF1")>>,
          FullGafPost,
          SubSeq(FullGafPost, 2, Len(FullGafPost)),
          SubSeq(FullGafPost, 3, Len(FullGafPost)),
          FullGafPost \o <<GAFForm(0, "GAF1")>>,
          FullGafPost \o <<GAFForm(0, "GAF16")>>}

InitGAF ==
    /\ agreement = NoAgreement
    /\ response = NoResponse
    /\ midyear = NoReview
    /\ midyear_reviews = 0
    /\ final = NoReview
    /\ plans = <<>>
    /\ audit = <<>>
    /\ accounts = Users
    /\ notifications = <<>>
    /\ preferences = [u \in Users |-> "ON"]
    /\ calls = NoCalls

GafCreate ==
    \E gafs \in GafPosts :
        PerformanceAgreementCreateView("emp", DRAFT, PlanDates,
                                       <<KRAForm(0, Hundred, FALSE)>>, gafs)

GafUpdate ==
    \E bn \in Texts, gafs \in GafPosts :
        PerformanceAgreementUpdateView("emp", "save", "", bn, PlanDates,
                                       <<KRAForm(1, Hundred, FALSE)>>, gafs)

GafDelete == \E m \in Methods : performance_agreement_delete("emp", m)

NextGAF == GafCreate \/ GafUpdate \/ GafDelete

SpecGAF == InitGAF /\ [][NextGAF]_vars

\* C22: after any sequence of create and update requests an agreement has at
\* most 15 GAF rows, each with a factor of the catalogue GAF1..GAF15, and no
\* two of its rows have the same factor
C22_GafRowsWithinCatalogue ==
    agreement # NoAgreement =>
        /\ Len(agreement.gafs) <= Len(GafCatalogue)
        /\ \A i \in 1..Len(agreement.gafs) : agreement.gafs[i] \in GAF_CHOICES
        /\ \A i, j \in 1..Len(agreement.gafs) :
              i # j => agreement.gafs[i] # agreement.gafs[j]

\* an agreement holding all 15 factors after a formset with one more row was
\* refused
C22_Witness ==
    /\ agreement # NoAgreement
    /\ Len(agreement.gafs) = Len(GafCatalogue)
    /\ response.view = "update"
    /\ response.outcome = "invalid"


-----------------------------------------------------------------------------
(* ImprovementPlan.get_or_create_current_plan called by two callers whose  *)
(* statements interleave.  No lock and no transaction is taken.            *)

\* the call is entered: no statement has run yet.  no_current_plan records
\* whether the employee had no Draft or In-Progress plan at that moment
CallGetOrCreate(p, e) ==
    /\ calls[p].pc = "idle"
    /\ calls' = [calls EXCEPT ![p] =
                    [pc |-> "lookup", method |-> "get_or_create_current_plan",
                     employee |-> e,
                     no_current_plan |->
                         (PlansOf(e, {"DRAFT", "IN_PROGRESS"}) = {}),
                     current_plan |-> 0]]
    /\ UNCHANGED <<agreement, response, midyear, midyear_reviews, final, plans,
                   audit, accounts, notifications, preferences>>

\* QuerySet.first(): the row with the lowest primary key, 0 for None
First(rows) ==
    IF rows = {} THEN 0 ELSE CHOOSE i \in rows : \A j \in rows : i <= j

\* current_plan = cls.objects.filter(...).first()
LookupCurrentPlan(p) ==
    /\ calls[p].pc = "lookup"
    /\ calls' = [calls EXCEPT
                    ![p].pc = "test",
                    ![p].current_plan =
                        First(PlansOf(calls[p].employee,
                                      {"DRAFT", "IN_PROGRESS"}))]
    /\ UNCHANGED <<agreement, response, midyear, midyear_reviews, final, plans,
                   audit, accounts, notifications, preferences>>

\* if not current_plan: current_plan = cls.objects.create(...)
CreateCurrentPlan(p) ==
    /\ calls[p].pc = "test"
    /\ calls[p].current_plan = 0
    /\ Len(plans) < MaxPlans
    /\ plans' = Append(plans, Plan(calls[p].employee,
                                   manager(calls[p].employee), "DRAFT"))
    /\ calls' = [calls EXCEPT ![p].pc = "returned",
                              ![p].current_plan = Len(plans) + 1]
    /\ UNCHANGED <<agreement, response, midyear, midyear_reviews, final, audit,
                   accounts, notifications, preferences>>

\* return current_plan, the row found by the lookup
ReturnCurrentPlan(p) ==
    /\ calls[p].pc = "test"
    /\ calls[p].current_plan # 0
    /\ calls' = [calls EXCEPT ![p].pc = "returned"]
    /\ UNCHANGED <<agreement, response, midyear, midyear_reviews, final, plans,
                   audit, accounts, notifications, preferences>>

\* plans stored before the calls: none, or plans that are not current
StoredPlans ==
    {<<>>, <<Plan("emp", "sup", "COMPLETED")>>,
     <<Plan("other", "NULL", "COMPLETED")>>}

InitConcurrentPlan ==
    /\ agreement = NoAgreement
    /\ response = NoResponse
    /\ midyear = NoReview
    /\ midyear_reviews = 0
    /\ final = NoReview
    /\ plans \in StoredPlans
    /\ audit = <<>>
    /\ accounts = Users
    /\ notifications = <<>>
    /\ preferences = [u \in Users |-> "ON"]
    /\ calls = NoCalls

Call == \E p \in Callers, e \in PlanEmployees : CallGetOrCreate(p, e)

Lookup == \E p \in Callers : LookupCurrentPlan(p)

CreatePlan == \E p \in Callers : CreateCurrentPlan(p)

ReturnPlan == \E p \in Callers : ReturnCurrentPlan(p)

NextConcurrentPlan == Call \/ Lookup \/ CreatePlan \/ ReturnPlan

SpecConcurrentPlan == InitConcurrentPlan /\ [][NextConcurrentPlan]_vars

\* C27: two calls for the same employee, entered while the employee has no
\* Draft or In-Progress plan and interleaved in any order, create exactly one
\* plan between them and both return that plan
C27_ConcurrentCallsShareOnePlan ==
    (\A p \in Callers : calls[p].pc = "returned" /\ calls[p].no_current_plan)
    => (calls[1].employee = calls[2].employee
        => /\ Cardinality(PlansOf(calls[1].employee,
                                  {"DRAFT", "IN_PROGRESS"})) = 1
           /\ calls[1].current_plan = calls[2].current_plan)


-----------------------------------------------------------------------------
(* permissions.py: the four agreement permission functions applied to any  *)
(* user and any agreement                                                   *)

\* the users a permission function may be given: every account and the
\* anonymous user of an unauthenticated request
Requesters == Users \cup {"anonymous"}

\* agreements with any employee, any supervisor or none, and any status
PermissionAgreements ==
    {[NewAgreement(e, <<Hundred>>) EXCEPT !.supervisor = sup, !.status = s] :
        e \in Users, sup \in Users \cup {"NULL"}, s \in STATUS_CHOICES}

ChangePermissions == {"update", "delete", "approve"}

\* caller 1 asks can_view_performance_agreement, caller 2 one of the other
\* three functions, for the same user and the stored agreement
CheckPermissions(u, permission_type) ==
    /\ calls' =
           [calls EXCEPT
               ![1] = [pc |-> "returned", method |-> "view", user |-> u,
                       result |-> can_view_performance_agreement(u, agreement)],
               ![2] = [pc |-> "returned", method |-> permission_type,
                       user |-> u,
                       result |-> performance_agreement_permission(
                                      permission_type, u, agreement)]]
    /\ UNCHANGED <<agreement, response, midyear, midyear_reviews, final, plans,
                   audit, accounts, notifications, preferences>>

InitPermission ==
    /\ agreement \in PermissionAgreements
    /\ response = NoResponse
    /\ midyear = NoReview
    /\ midyear_reviews = 0
    /\ final = NoReview
    /\ plans = <<>>
    /\ audit = <<>>
    /\ accounts = Users
    /\ notifications = <<>>
    /\ preferences = [u \in Users |-> "ON"]
    /\ calls = NoCalls

Check ==
    \E u \in Requesters, permission_type \in ChangePermissions :
        CheckPermissions(u, permission_type)

NextPermission == Check

SpecPermission == InitPermission /\ [][NextPermission]_vars

\* C30: for every user and every agreement, a true answer of
\* can_update_performance_agreement, can_delete_performance_agreement or
\* can_approve_performance_agreement comes with a true answer of
\* can_view_performance_agreement
C30_ChangeImpliesView ==
    /\ \A u \in Requesters :
          (\/ can_update_performance_agreement(u, agreement)
           \/ can_delete_performance_agreement(u, agreement)
           \/ can_approve_performance_agreement(u, agreement))
          => can_view_performance_agreement(u, agreement)
    /\ (calls[2].pc = "returned" /\ calls[2].result) => calls[1].result

\* the supervisor of an agreement of an employee who is not their
\* subordinate may update it, and may view it by the supervisor clause alone
C30_Witness ==
    /\ agreement.employee = "other"
    /\ agreement.supervisor = "sup"
    /\ agreement.status = PENDING_SUPERVISOR_RATING
    /\ calls[2].pc = "returned"
    /\ calls[2].user = "sup"
    /\ calls[2].method = "update"
    /\ calls[2].result
    /\ calls[1].result


\* C23: a manager_approve action of the update view changes the status to
\* Pending-HR-Verification only if the status was Pending-Manager-Approval;
\* from every other status it leaves the status unchanged, whoever the
\* requester is
C23_ManagerApproveOnlyFromPendingManagerApproval ==
    [][(/\ response'.view = "update"
        /\ response'.action = "manager_approve"
        /\ agreement.status # PENDING_MANAGER_APPROVAL)
       => agreement'.status = agreement.status]_vars


\* C24: a mid-year review's status becomes Pending-Manager-Approval only
\* through a supervisor_signoff action by the agreement's supervisor taken
\* while the status is Pending-Supervisor-Signoff
C24_SignoffOnlyFromPendingSignoff ==
    [][(/\ midyear # NoReview
        /\ midyear.status # "PENDING_MANAGER_APPROVAL"
        /\ midyear'.status = "PENDING_MANAGER_APPROVAL")
       => /\ response'.view = "midyear_update"
          /\ response'.action = "supervisor_signoff"
          /\ response'.user = agreement.supervisor
          /\ midyear.status = "PENDING_SUPERVISOR_SIGNOFF"]_vars

\* C25: once a mid-year review is Completed, no request to the update view
\* changes its status, its overall comments or its ratings
C25_CompletedReviewIsFrozen ==
    [][(midyear.status = "COMPLETED" /\ response'.view = "midyear_update")
       => /\ midyear'.status = midyear.status
          /\ midyear'.comments = midyear.comments
          /\ midyear'.kra_rating = midyear.kra_rating]_vars

C28_RefusedActionChangesNothing ==
    [][(response'.view = "midyear_update" /\ response'.outcome = "error")
       => midyear' = midyear]_vars

====
